---------------------------- MODULE Spec2Model ----------------------------
(***************************************************************************)
(* The Go wrapper around the native Cosmos DB client library               *)
(* (package azurecosmos): CosmosClient, DatabaseClient and ContainerClient *)
(* each own one foreign handle.  The model follows the goroutines that     *)
(* call the wrappers, the runtime's finalizer goroutine, and the foreign   *)
(* library, whose results are an input of the model.                       *)
(*                                                                         *)
(* A wrapper method is split into steps at every read or write of the      *)
(* wrapper's pointer field and at the start and the return of a foreign    *)
(* call, because the methods take no lock: other goroutines run between    *)
(* those steps.  Steps that touch only the goroutine's own locals are      *)
(* folded into the step before them.                                       *)
(***************************************************************************)
EXTENDS Integers, Sequences, FiniteSets, TLC

\* Goroutines that call the wrappers: 1..NumThreads.
NumThreads == 2

\* The runtime runs every finalizer on one goroutine of its own.
FinalizerGoroutine == 0

Threads == 1..NumThreads

AllThreads == {FinalizerGoroutine} \cup Threads

\* One wrapper object of each of the three wrapper types is followed.
Kinds == {"client", "database", "container"}

\* C.COSMOS_ERROR_CODE_SUCCESS
COSMOS_ERROR_CODE_SUCCESS == 0

\* Status codes the foreign library may produce (success and two failures).
Codes == {COSMOS_ERROR_CODE_SUCCESS, 1, 404}

\* A C pointer to a NUL-terminated buffer, or the null pointer.
NullPtr == [null |-> TRUE, buf |-> <<>>]

CStr(bytes) == [null |-> FALSE, buf |-> bytes \o <<0>>]

\* Error messages the foreign library may leave in cosmos_error.message.
Messages == {NullPtr, CStr(<<>>), CStr(<<98>>)}

\* JSON payloads the foreign library may leave in the out parameter.
Payloads == {NullPtr, CStr(<<123, 125>>)}

\* The null handle pointer; an open wrapper of kind k holds the handle k.
NULL == "NULL"


VARIABLES
    exists,       \* exists[w]: the wrapper object of kind w has been created
    handle,       \* handle[w]: the wrapper's pointer field (c.client, d.database, c.container)
    finalizer,    \* finalizer[w]: a finalizer is set on the wrapper (runtime.SetFinalizer)
    reachable,    \* reachable[w]: the program still holds a reference to the wrapper
    frees,        \* frees[w]: calls of the foreign destructor on the wrapper's handle so far
    closeCalled,  \* closeCalled[w]: Close has been called on the wrapper
    closeDone,    \* closeDone[w]: a Close call on the wrapper has returned
    hookRan,      \* hookRan[w]: the runtime has started the wrapper's finalizer
    thr,          \* thr[t]: where goroutine t is, and the locals of the call it is in
    last,         \* the call that returned in the step just taken: what it was given
                  \* and what it returned (NoLast when no call returned)
    recording,    \* whether returned calls are recorded in last
    crashed,      \* the process was killed by undefined behaviour in the foreign library
    itemCount,    \* the item-count flag
    partitionCount, \* the partition-count flag
    key,          \* the item id and partition key derived last, for which index, by whom
    now,          \* the time, in ticks since executeBenchmark started
    ctxDone,      \* benchCtx is done (its deadline passed or its parent was cancelled)
    stopChan,     \* "open" or "closed"
    wg,           \* the WaitGroup's counter
    totalOps,     \* the shared counter of successful reads
    totalLatency, \* the shared sum of the latencies of successful reads
    worker,       \* worker[i]: where worker goroutine i is, and its locals
    main,         \* where the goroutine of runPointReadBenchmark is, and its locals
    progress,     \* where the progress reporting goroutine is
    tally,        \* what the reads did so far: started, failed, latency of the successful
    loader        \* insertSampleDocuments: its channels, its goroutines, what was inserted

harnessVars == <<itemCount, partitionCount, key, now, ctxDone, stopChan, wg,
                 totalOps, totalLatency, worker, main, progress, tally, loader>>

vars == <<exists, handle, finalizer, reachable, frees, closeCalled, closeDone,
          hookRan, thr, last, recording, crashed, harnessVars>>

wrapperVars == <<exists, handle, finalizer, reachable, frees, closeCalled,
                 closeDone, hookRan>>

-----------------------------------------------------------------------------
(* Values *)

\* A goroutine that is in no wrapper call.
Idle == [pc |-> "idle", w |-> "none", arg |-> NULL, stale |-> FALSE, late |-> FALSE]

\* A Go string is the sequence of its bytes.
\* C.GoString copies the bytes before the first NUL; of a nil pointer it is "".
GoString(p) ==
    IF p.null THEN <<>>
    ELSE LET n == CHOOSE i \in 1..Len(p.buf) :
                      /\ p.buf[i] = 0
                      /\ \A j \in 1..(i - 1) : p.buf[j] # 0
         IN  SubSeq(p.buf, 1, n - 1)

\* The conversion int32(x) of Go, of a value of the C enum cosmos_error_code:
\* every code of the enum lies within int32, where the conversion keeps it.
ToInt32(x) == x

\* The nil error.
NoError == [type |-> "nil", Code |-> 0, Message |-> <<>>, text |-> ""]

\* fmt.Errorf(text)
Errorf(text) == [type |-> "errorString", Code |-> 0, Message |-> <<>>, text |-> text]

\* A C.struct_cosmos_error as the foreign call may leave it.
CosmosErrors == [code : Codes, message : Messages]

\* var cerr C.struct_cosmos_error
ZeroCosmosError == [code |-> 0, message |-> NullPtr]

\* What a foreign call hands back: its return code, the cosmos_error and the
\* out parameter (a handle or a payload).  The wrapper reads the cosmos_error
\* only after a failure and the out parameter only after a success, so the one
\* it does not read is left as Go initialised it.  The return code and the
\* code in the cosmos_error are two outputs: the library may set them apart.
Outcomes(outs) ==
    [code : Codes \ {COSMOS_ERROR_CODE_SUCCESS}, cerr : CosmosErrors, out : {NullPtr}]
    \cup [code : {COSMOS_ERROR_CODE_SUCCESS}, cerr : {ZeroCosmosError},
          out : outs]

\* The out parameter of a call that created a handle.
NewHandle == CStr(<<>>)

newCosmosErrorNoSuccessCheck(cerr) ==
    [type |-> "CosmosError", Code |-> ToInt32(cerr.code),
     Message |-> GoString(cerr.message), text |-> ""]

\* newCosmosError creates a Go error from a C cosmos_error
newCosmosError(cerr) ==
    IF cerr.code = COSMOS_ERROR_CODE_SUCCESS THEN NoError
    ELSE [type |-> "CosmosError",
          Code |-> ToInt32(cerr.code),
          Message |-> IF cerr.message.null THEN <<>> ELSE GoString(cerr.message),
          text |-> ""]

\* The record of a returned call.  reached: the foreign function was called;
\* allocs, cfrees: C.CString and C.free calls; goStrings: C.GoString calls on
\* the payload; strFrees: cosmos_string_free calls; wrapper, text, err: what
\* the call returned.
NoLast ==
    [op |-> "none", w |-> "none", late |-> FALSE, reached |-> FALSE,
     code |-> 0, cerr |-> ZeroCosmosError, payload |-> NullPtr,
     wrapper |-> "nil", text |-> <<>>, err |-> NoError,
     allocs |-> 0, cfrees |-> 0, goStrings |-> 0, strFrees |-> 0,
     bufOps |-> <<>>]

\* The record kept of a returned call r.
Record(r) == IF recording THEN r ELSE NoLast

\* The method of each wrapper type that calls into the foreign library.
MethodOf(w) ==
    CASE w = "client"    -> "DatabaseClient"
      [] w = "database"  -> "ContainerClient"
      [] w = "container" -> "ReadItem"

\* The error text of that method on a closed wrapper.
ClosedText(w) ==
    CASE w = "client"    -> "client is closed"
      [] w = "database"  -> "database client is closed"
      [] w = "container" -> "container client is closed"

-----------------------------------------------------------------------------
(* The benchmark harness: values *)

\* workers: the worker goroutines of one run
NumWorkers == 2
Workers == 1..NumWorkers

\* duration, in ticks: benchCtx's deadline is this long after the start
Deadline == 2

\* The longest a ReadItem call takes, in ticks; the shortest takes one tick.
MaxOpTime == 2

\* The clock is followed one tick beyond the deadline and the longest read.
MaxTime == Deadline + MaxOpTime + 1

\* pointReadCmd.Flags().IntP("item-count", "i", 10000, ...)
DefaultItemCount == 10000

\* pointReadCmd.Flags().IntP("partition-count", "p", 10, ...)
DefaultPartitionCount == 10

\* Values of the item-count and partition-count flags that are followed.
ItemCounts == {1, 3, DefaultItemCount}
PartitionCounts == {1, 3, 7, DefaultPartitionCount}

\* A worker goroutine that has not been started.
NotStarted == [pc |-> "none", opStart |-> 0, opLatency |-> 0]

\* No BenchmarkResults (a nil pointer).
NoResults == [set |-> FALSE, TotalOps |-> 0, ElapsedTime |-> 0,
              OpsPerSecond |-> <<0, 1>>, LatencyMs |-> <<0, 1>>]

\* runPointReadBenchmark before it calls executeBenchmark.  defers: the
\* wrappers whose Close is deferred, the one deferred last first; failed: the
\* wrapper whose foreign constructor call failed.
MainIdle == [pc |-> "none", finalOps |-> 0, finalLatency |-> 0,
             results |-> NoResults, err |-> NoError, printed |-> "none",
             defers |-> <<>>, failed |-> "none"]

NoTally == [reads |-> 0, failed |-> 0, latency |-> 0]

\* No item id and partition key derived yet.
NoKey == [by |-> "none", index |-> 0, itemID |-> <<>>, partitionKey |-> <<>>]

DigitChars == <<"0", "1", "2", "3", "4", "5", "6", "7", "8", "9">>

\* The verb %d of fmt.Sprintf for n >= 0: the decimal digits of n.
RECURSIVE FormatInt(_)
FormatInt(n) ==
    IF n < 10 THEN <<DigitChars[n + 1]>>
    ELSE FormatInt(n \div 10) \o <<DigitChars[(n % 10) + 1]>>

\* fmt.Sprintf(prefix + "%d", n)
Sprintf(prefix, n) == prefix \o FormatInt(n)

\* localRand.Intn(n): the values it may return, for n > 0.
Intn(n) == 0..(n - 1)

PartitionOfQuotient(itemIndex, count) == itemIndex \div count

\* itemIndex%partitionCount, for itemIndex >= 0 and partitionCount > 0.
PartitionOf(itemIndex, count) == itemIndex % count

\* workerBenchmark: the item id and partition key of the read for itemIndex.
workerKey(itemIndex, count) ==
    [by |-> "worker", index |-> itemIndex,
     itemID |-> Sprintf(<<"i", "t", "e", "m">>, itemIndex),
     partitionKey |-> Sprintf(<<"p", "a", "r", "t", "i", "t", "i", "o", "n">>,
                              PartitionOf(itemIndex, count))]

\* createRandomDocsItem: the ID and PartitionKey of the document for index
\* (Data and RandomNumber are random and are not followed).
createRandomDocsItem(index, count) ==
    [ID |-> Sprintf(<<"i", "t", "e", "m">>, index),
     PartitionKey |-> Sprintf(<<"p", "a", "r", "t", "i", "t", "i", "o", "n">>,
                              index % count)]

\* insertSampleDocuments: concurrency := 32 workers; fewer are followed.
concurrency == 2

LoaderWorkers == 1..concurrency

\* The largest itemCount insertSampleDocuments is followed for.
MaxItems == 3

UnbufferedChan(size) == 0

\* make(chan int, itemCount), make(chan error, itemCount): the capacity.
Capacity(size) == size

\* The error of a failed insert of the document of index j.
InsertError(j) == [type |-> "insertError", Code |-> j, Message |-> <<>>, text |-> ""]

\* A worker goroutine of the loader that has not been started.
LoaderWorkerIdle == [pc |-> "none", j |-> 0, err |-> NoError]

\* insertSampleDocuments before it is called.  i: the loop variable of the
\* sending loop; jobs, results: what is buffered in the two channels; taken[j]:
\* how often index j was received from jobs; failed: the indices whose insert
\* failed; errs, ret: what is collected and returned.
LoaderIdle ==
    [pc |-> "none", started |-> 0, i |-> 0,
     jobs |-> <<>>, jobsClosed |-> FALSE,
     results |-> <<>>, resultsClosed |-> FALSE,
     wg |-> 0,
     w |-> [k \in LoaderWorkers |-> LoaderWorkerIdle],
     taken |-> [j \in 0..(MaxItems - 1) |-> 0],
     failed |-> {},
     errs |-> <<>>,
     ret |-> [set |-> FALSE, nil |-> TRUE, joined |-> <<>>]]

-----------------------------------------------------------------------------
InitWrappers ==
    /\ exists = [w \in Kinds |-> FALSE]
    /\ handle = [w \in Kinds |-> NULL]
    /\ finalizer = [w \in Kinds |-> FALSE]
    /\ reachable = [w \in Kinds |-> FALSE]
    /\ frees = [w \in Kinds |-> 0]
    /\ closeCalled = [w \in Kinds |-> FALSE]
    /\ closeDone = [w \in Kinds |-> FALSE]
    /\ hookRan = [w \in Kinds |-> FALSE]
    /\ thr = [t \in AllThreads |-> Idle]
    /\ last = NoLast
    /\ crashed = FALSE

\* The benchmark harness before it is run.
HarnessIdle ==
    /\ key = NoKey
    /\ now = 0
    /\ ctxDone = FALSE
    /\ stopChan = "open"
    /\ wg = 0
    /\ totalOps = 0
    /\ totalLatency = 0
    /\ worker = [i \in Workers |-> NotStarted]
    /\ main = MainIdle
    /\ progress = "none"
    /\ tally = NoTally
    /\ loader = LoaderIdle

\* The flags' default values.
DefaultFlags ==
    /\ itemCount = DefaultItemCount
    /\ partitionCount = DefaultPartitionCount

Init == InitWrappers /\ recording = FALSE /\ DefaultFlags /\ HarnessIdle

InitSeq == InitWrappers /\ recording = TRUE /\ DefaultFlags /\ HarnessIdle

-----------------------------------------------------------------------------
(* Constructors and methods *)

\* c := &CosmosClient{client: client}; runtime.SetFinalizer(c, finalize):
\* a new wrapper of kind w holding its handle, with its finalizer set.
Opened(w) ==
    /\ exists' = [exists EXCEPT ![w] = TRUE]
    /\ handle' = [handle EXCEPT ![w] = w]
    /\ finalizer' = [finalizer EXCEPT ![w] = TRUE]
    /\ reachable' = [reachable EXCEPT ![w] = TRUE]
    /\ UNCHANGED <<frees, closeCalled, closeDone, hookRan>>

DeferredFreeOmitted(n) == 0

\* defer C.free(unsafe.Pointer(cEndpoint)): each of the n copies made with
\* C.CString has its C.free deferred, and the deferred calls run once each
\* when the function returns, whichever return statement is taken.
DeferredFree(n) == n

\* if code != C.COSMOS_ERROR_CODE_SUCCESS
Failed(code) == code # COSMOS_ERROR_CODE_SUCCESS

\* What a constructor returns for the foreign call's results: the new wrapper
\* of kind child and nil, or nil and the translated error.
ConstructorResult(op, w, late, n, code, cerr, child) ==
    [NoLast EXCEPT !.op = op, !.w = w, !.late = late, !.reached = TRUE,
                   !.code = code, !.cerr = cerr,
                   !.wrapper = IF Failed(code) THEN "nil" ELSE child,
                   !.err = IF Failed(code) THEN newCosmosError(cerr) ELSE NoError,
                   !.allocs = n, !.cfrees = DeferredFree(n)]

\* NewCosmosClientWithKey creates a new CosmosClient using endpoint and key
\* authentication.  It touches no shared state before the wrapper exists, so
\* it is one step.  The library creates the one client the model follows.
NewCosmosClientWithKey(t) ==
    /\ ~crashed
    /\ t \in Threads
    /\ thr[t].pc = "idle"
    /\ \E r \in Outcomes({NewHandle}) :
          /\ ~Failed(r.code) => ~exists["client"]
          /\ last' = Record(ConstructorResult("NewCosmosClientWithKey", "none", FALSE,
                                              2, r.code, r.cerr, "client"))
          /\ IF Failed(r.code) THEN UNCHANGED wrapperVars ELSE Opened("client")
    /\ UNCHANGED <<thr, recording, harnessVars, crashed>>

IsNilNever(w) == FALSE

\* if c.client == nil
IsNil(w) == handle[w] = NULL

\* The first step of DatabaseClient, ContainerClient and ReadItem on the
\* wrapper of kind w: the check that the wrapper is open.  A closed wrapper
\* returns its error at once; an open one goes on to the foreign call.
Method(t, w) ==
    /\ ~crashed
    /\ t \in Threads
    /\ thr[t].pc = "idle"
    /\ exists[w] /\ reachable[w]
    /\ IF IsNil(w)
       THEN /\ last' = Record([NoLast EXCEPT !.op = MethodOf(w), !.w = w,
                                             !.late = closeDone[w],
                                             !.err = Errorf(ClosedText(w))])
            /\ UNCHANGED thr
       ELSE /\ thr' = [thr EXCEPT ![t] = [Idle EXCEPT !.pc = "call", !.w = w,
                                                      !.late = closeDone[w]]]
            /\ last' = NoLast
    /\ UNCHANGED <<wrapperVars, recording, harnessVars, crashed>>

\* DatabaseClient returns a DatabaseClient for the specified database ID
CosmosClient_DatabaseClient(t) == Method(t, "client")

\* ContainerClient returns a ContainerClient for the specified container ID
DatabaseClient_ContainerClient(t) == Method(t, "database")

\* ReadItem reads an item from the container by ID and partition key
ContainerClient_ReadItem(t) == Method(t, "container")

\* The foreign call starts: its handle argument is read from the wrapper's
\* field now (the field is read a second time, after the check).  A nil or an
\* already released handle is undefined behaviour in the library: the process
\* may die, or the call goes on and returns anything.
ForeignCall(t) ==
    /\ ~crashed
    /\ thr[t].pc = "call"
    /\ LET w == thr[t].w
           bad == handle[w] = NULL \/ frees[w] > 0
       IN  /\ thr' = [thr EXCEPT ![t].pc = "inflight", ![t].arg = handle[w],
                                 ![t].stale = bad]
           /\ crashed' \in (IF bad THEN BOOLEAN ELSE {FALSE})
    /\ last' = NoLast
    /\ UNCHANGED <<wrapperVars, recording, harnessVars>>

\* cosmos_client_database_client returns; the deferred C.free runs.
DatabaseClientReturn(t) ==
    /\ ~crashed
    /\ thr[t].pc = "inflight" /\ thr[t].w = "client"
    /\ \E r \in Outcomes({NewHandle}) :
          /\ ~Failed(r.code) => ~exists["database"]
          /\ last' = Record(ConstructorResult("DatabaseClient", "client", thr[t].late,
                                              1, r.code, r.cerr, "database"))
          /\ IF Failed(r.code) THEN UNCHANGED wrapperVars ELSE Opened("database")
    /\ thr' = [thr EXCEPT ![t] = Idle]
    /\ UNCHANGED <<recording, harnessVars, crashed>>

\* cosmos_database_container_client returns; the deferred C.free runs.
ContainerClientReturn(t) ==
    /\ ~crashed
    /\ thr[t].pc = "inflight" /\ thr[t].w = "database"
    /\ \E r \in Outcomes({NewHandle}) :
          /\ ~Failed(r.code) => ~exists["container"]
          /\ last' = Record(ConstructorResult("ContainerClient", "database",
                                              thr[t].late, 1, r.code, r.cerr,
                                              "container"))
          /\ IF Failed(r.code) THEN UNCHANGED wrapperVars ELSE Opened("container")
    /\ thr' = [thr EXCEPT ![t] = Idle]
    /\ UNCHANGED <<recording, harnessVars, crashed>>

NullPayloadNever(outJson) == FALSE

\* if outJson == nil
NullPayload(outJson) == outJson.null

PayloadOpsFreeFirst == <<"cosmos_string_free", "GoString">>

\* result := C.GoString(outJson); C.cosmos_string_free(outJson): what is done
\* with a payload buffer, in order.
PayloadOps == <<"GoString", "cosmos_string_free">>

\* What ReadItem returns for the foreign call's results.
ReadItemResult(late, code, cerr, outJson) ==
    LET r == [NoLast EXCEPT !.op = "ReadItem", !.w = "container", !.late = late,
                            !.reached = TRUE, !.code = code, !.cerr = cerr,
                            !.payload = outJson, !.allocs = 2,
                            !.cfrees = DeferredFree(2)]
    IN  IF Failed(code)
        THEN [r EXCEPT !.err = newCosmosError(cerr)]
        ELSE IF NullPayload(outJson)
        THEN [r EXCEPT !.err = Errorf("received null JSON response")]
        ELSE [r EXCEPT !.text = GoString(outJson), !.goStrings = 1, !.strFrees = 1,
                       !.bufOps = PayloadOps]

\* cosmos_container_read_item returns; the payload is copied and released;
\* the deferred C.free calls run.
ReadItemReturn(t) ==
    /\ ~crashed
    /\ thr[t].pc = "inflight" /\ thr[t].w = "container"
    /\ \E r \in Outcomes(Payloads) :
          last' = Record(ReadItemResult(thr[t].late, r.code, r.cerr, r.out))
    /\ thr' = [thr EXCEPT ![t] = Idle]
    /\ UNCHANGED <<wrapperVars, recording, harnessVars, crashed>>

-----------------------------------------------------------------------------
(* Close, finalize and the garbage collector *)

\* finalize has returned: to Close, which returns, or to the runtime.
finalizeReturns(t, w, late, freed) ==
    IF t = FinalizerGoroutine
    THEN /\ last' = NoLast
         /\ UNCHANGED closeDone
    ELSE /\ closeDone' = [closeDone EXCEPT ![w] = TRUE]
         /\ last' = Record([NoLast EXCEPT !.op = "Close", !.w = w, !.late = late,
                                          !.reached = freed])

NotNilAlways(w) == TRUE

\* if c.client != nil
NotNil(w) == handle[w] # NULL

\* finalize, first step, by goroutine t on wrapper w: the check of the pointer
\* field.  With a handle in the field finalize goes on to release it;
\* without one it returns.
finalizeCheck(t, w, late) ==
    IF NotNil(w)
    THEN /\ thr' = [thr EXCEPT ![t] = [Idle EXCEPT !.pc = "free", !.w = w, !.late = late]]
         /\ last' = NoLast
         /\ UNCHANGED closeDone
    ELSE /\ thr' = [thr EXCEPT ![t] = Idle]
         /\ finalizeReturns(t, w, late, FALSE)

SetFinalizerNilOmitted(w) == finalizer

\* runtime.SetFinalizer(c, nil)
SetFinalizerNil(w) == [finalizer EXCEPT ![w] = FALSE]

\* Close explicitly releases the native resources: it clears the finalizer
\* and calls finalize, whose check is part of this step (clearing the
\* finalizer of a wrapper the caller holds is seen by no other goroutine).
\* The same code for the three wrapper types.
Close(t, w) ==
    /\ ~crashed
    /\ t \in Threads
    /\ thr[t].pc = "idle"
    /\ exists[w] /\ reachable[w]
    /\ finalizer' = SetFinalizerNil(w)
    /\ closeCalled' = [closeCalled EXCEPT ![w] = TRUE]
    /\ finalizeCheck(t, w, closeDone[w])
    /\ UNCHANGED <<exists, handle, reachable, frees, hookRan, recording, harnessVars, crashed>>

\* A foreign call that was handed the handle of wrapper w has not returned.
InUse(w) == \E u \in AllThreads : thr[u].pc = "inflight" /\ thr[u].arg = w

\* The foreign destructor is called by goroutine t with the handle in the
\* field of wrapper w.  A second release of the handle, or a release while a
\* foreign call uses it, is undefined behaviour in the library.
Release(t, w) ==
    LET bad == handle[w] # NULL /\ (frees[w] > 0 \/ InUse(w))
    IN  /\ frees' = [frees EXCEPT ![w] = IF handle[w] # NULL THEN @ + 1 ELSE @]
        /\ thr' = [thr EXCEPT ![t].pc = "clear"]
        /\ crashed' \in (IF bad THEN BOOLEAN ELSE {FALSE})
        /\ last' = NoLast
        /\ UNCHANGED <<exists, handle, finalizer, reachable, closeCalled, closeDone,
                       hookRan, recording, harnessVars>>

finalizeFreeWaitsForCalls(t) ==
    /\ ~crashed
    /\ thr[t].pc = "free"
    /\ ~InUse(thr[t].w)
    /\ \A u \in Threads : ~(thr[u].pc = "call" /\ thr[u].w = thr[t].w)
    /\ Release(t, thr[t].w)

\* finalize, second step: C.cosmos_client_free(c.client) (cosmos_database_free,
\* cosmos_container_free).  The field is read again for the argument.
\* Nothing is waited for.
finalizeFree(t) ==
    /\ ~crashed
    /\ thr[t].pc = "free"
    /\ Release(t, thr[t].w)

ClearWithChildren(w) ==
    [k \in Kinds |->
        IF k = w \/ (w = "client") \/ (w = "database" /\ k = "container")
        THEN NULL ELSE handle[k]]

\* c.client = nil
Clear(w) == [handle EXCEPT ![w] = NULL]

\* finalize, third step: the field is set to nil and finalize returns.
finalizeClear(t) ==
    /\ ~crashed
    /\ thr[t].pc = "clear"
    /\ handle' = Clear(thr[t].w)
    /\ thr' = [thr EXCEPT ![t] = Idle]
    /\ finalizeReturns(t, thr[t].w, thr[t].late, TRUE)
    /\ UNCHANGED <<exists, finalizer, reachable, frees, closeCalled, hookRan,
                   recording, harnessVars, crashed>>

\* Goroutine t still refers to wrapper w: it is in a method of w and has not
\* yet made its last read of the wrapper.  A goroutine whose foreign call is in
\* flight has read the handle out of the wrapper and refers to it no more.
Uses(t, w) == thr[t].w = w /\ thr[t].pc \in {"call", "free", "clear"}

\* The program drops its last reference to wrapper w.
Unreachable(w) ==
    /\ ~crashed
    /\ exists[w] /\ reachable[w]
    /\ \A t \in Threads : ~Uses(t, w)
    /\ reachable' = [reachable EXCEPT ![w] = FALSE]
    /\ last' = NoLast
    /\ UNCHANGED <<exists, handle, finalizer, frees, closeCalled, closeDone, hookRan,
                   thr, recording, harnessVars, crashed>>

\* The garbage collector finds wrapper w unreachable with a finalizer set:
\* the runtime clears the finalizer and calls finalize on the finalizer
\* goroutine; the check of finalize is part of this step.
RunFinalizer(w) ==
    /\ ~crashed
    /\ thr[FinalizerGoroutine].pc = "idle"
    /\ exists[w] /\ ~reachable[w] /\ finalizer[w]
    /\ finalizer' = [finalizer EXCEPT ![w] = FALSE]
    /\ hookRan' = [hookRan EXCEPT ![w] = TRUE]
    /\ finalizeCheck(FinalizerGoroutine, w, FALSE)
    /\ UNCHANGED <<exists, handle, reachable, frees, closeCalled, recording, harnessVars, crashed>>

-----------------------------------------------------------------------------
(* Specifications *)

\* The steps of goroutine t.
Step(t) ==
    \/ NewCosmosClientWithKey(t)
    \/ CosmosClient_DatabaseClient(t)
    \/ DatabaseClient_ContainerClient(t)
    \/ ContainerClient_ReadItem(t)
    \/ ForeignCall(t)
    \/ DatabaseClientReturn(t)
    \/ ContainerClientReturn(t)
    \/ ReadItemReturn(t)
    \/ \E w \in Kinds : Close(t, w)
    \/ finalizeFree(t)
    \/ finalizeClear(t)

\* The steps of the runtime.
Runtime ==
    \/ \E w \in Kinds : Unreachable(w)
    \/ \E w \in Kinds : RunFinalizer(w)

Next == (\E t \in AllThreads : Step(t)) \/ Runtime

\* Any number of goroutines share the wrappers.
Spec == Init /\ [][Next]_vars

NextSeq == Step(1) \/ Step(FinalizerGoroutine) \/ Runtime

\* One goroutine owns the wrappers: its calls follow one another.
SpecSeq == InitSeq /\ [][NextSeq]_vars

-----------------------------------------------------------------------------
(* The keys of the documents *)

wrapperSide == <<wrapperVars, thr, last, recording, crashed>>

benchVars == <<now, ctxDone, stopChan, wg, totalOps, totalLatency, worker, main,
               progress, tally>>

\* workerBenchmark, the default branch up to the call of ReadItem: an index
\* is drawn and the item id and partition key are formatted from it.
SelectItem ==
    /\ key.by = "none"
    /\ \E itemIndex \in Intn(itemCount) :
          key' = workerKey(itemIndex, partitionCount)
    /\ UNCHANGED <<wrapperSide, benchVars, loader, itemCount, partitionCount>>

\* insertSampleDocuments, the body of a worker for job j: the document of
\* index j is made.
LoadItem ==
    /\ key.by = "none"
    /\ \E j \in 0..(itemCount - 1) :
          LET item == createRandomDocsItem(j, partitionCount)
          IN  key' = [by |-> "loader", index |-> j, itemID |-> item.ID,
                      partitionKey |-> item.PartitionKey]
    /\ UNCHANGED <<wrapperSide, benchVars, loader, itemCount, partitionCount>>

\* The read was issued, or the document stored: the keys go out of scope.
KeyUsed ==
    /\ key.by # "none"
    /\ key' = NoKey
    /\ UNCHANGED <<wrapperSide, benchVars, loader, itemCount, partitionCount>>

InitKeys ==
    /\ InitWrappers /\ recording = FALSE
    /\ itemCount \in ItemCounts
    /\ partitionCount \in PartitionCounts
    /\ HarnessIdle

NextKeys == SelectItem \/ LoadItem \/ KeyUsed

\* The benchmark's worker and the data loader derive keys, for any flags.
SpecKeys == InitKeys /\ [][NextKeys]_vars

-----------------------------------------------------------------------------
(* The benchmark: workerBenchmark *)

flagVars == <<itemCount, partitionCount, key>>

SelectIgnoresStop(i) == ctxDone

SelectIgnoresCtx(i) == stopChan = "closed"

\* select { case <-ctx.Done(): ... case <-stopChan: ... default: ... }: one of
\* the two receive cases is ready.
SelectReady(i) == ctxDone \/ stopChan = "closed"

WaitGroupDoneOmitted(counter) == counter

\* defer wg.Done(), run when the worker returns.
WaitGroupDone(counter) == counter - 1

\* The top of the loop of worker i.  With a receive case ready the worker
\* returns, and the deferred wg.Done() runs.  Otherwise the default branch is
\* taken: the keys are derived and the start time is taken.
WorkerSelect(i) ==
    /\ worker[i].pc = "select"
    /\ IF SelectReady(i)
       THEN /\ worker' = [worker EXCEPT ![i].pc = "returned"]
            /\ wg' = WaitGroupDone(wg)
       ELSE /\ worker' = [worker EXCEPT ![i].pc = "call", ![i].opStart = now]
            /\ UNCHANGED wg
    /\ UNCHANGED <<wrapperSide, flagVars, loader, now, ctxDone, stopChan, totalOps,
                   totalLatency, main, progress, tally>>

AfterErrorReturn == "returned"

\* continue: where the worker is after it printed the error.
AfterError == "select"

\* container.ReadItem(itemID, partitionKey) is called by worker i on the
\* container wrapper it was given.  On an open container the foreign read
\* starts; a closed one gives its error at once, which the worker handles
\* like any other.
CallReadItem(i) ==
    /\ worker[i].pc = "call"
    /\ exists["container"]
    /\ IF IsNil("container")
       THEN /\ worker' = [worker EXCEPT ![i].pc = AfterError, ![i].opStart = 0]
            /\ tally' = [tally EXCEPT !.reads = @ + 1, !.failed = @ + 1]
       ELSE /\ worker' = [worker EXCEPT ![i].pc = "reading"]
            /\ tally' = [tally EXCEPT !.reads = @ + 1]
    /\ UNCHANGED <<wrapperSide, flagVars, loader, now, ctxDone, stopChan, wg, totalOps,
                   totalLatency, main, progress>>

\* The error container.ReadItem returns for what the foreign read gave.
ReadItemError(r) == ReadItemResult(FALSE, r.code, r.cerr, r.out).err

\* if err != nil { ...; continue }: the test's other branch.
ErrNil(err) == err.type = "nil"

\* The foreign read ends and ReadItem returns to worker i, after at least one
\* tick; the end time is taken.  On an error the worker prints it and continues with its next
\* iteration; otherwise it goes on to the counters.
ReadItemDone(i) ==
    /\ worker[i].pc = "reading"
    /\ now - worker[i].opStart >= 1
    /\ \E r \in Outcomes(Payloads) :
          IF ErrNil(ReadItemError(r))
          THEN /\ worker' = [worker EXCEPT ![i].pc = "addOps",
                                           ![i].opLatency = now - worker[i].opStart]
               /\ tally' = [tally EXCEPT !.latency = @ + (now - worker[i].opStart)]
          ELSE /\ worker' = [worker EXCEPT ![i].pc = AfterError, ![i].opStart = 0]
               /\ tally' = [tally EXCEPT !.failed = @ + 1]
    /\ UNCHANGED <<wrapperSide, flagVars, loader, now, ctxDone, stopChan, wg, totalOps,
                   totalLatency, main, progress>>

AtomicAddLost(value, delta) == value

\* atomic.AddInt64(addr, delta): the new value at addr.
AtomicAddInt64(value, delta) == value + delta

\* atomic.AddInt64(totalOps, 1)
AddOps(i) ==
    /\ worker[i].pc = "addOps"
    /\ totalOps' = AtomicAddInt64(totalOps, 1)
    /\ worker' = [worker EXCEPT ![i].pc = "addLatency"]
    /\ UNCHANGED <<wrapperSide, flagVars, loader, now, ctxDone, stopChan, wg,
                   totalLatency, main, progress, tally>>

\* atomic.AddInt64(totalLatency, opLatency.Nanoseconds()); the loop goes round.
AddLatency(i) ==
    /\ worker[i].pc = "addLatency"
    /\ totalLatency' = AtomicAddInt64(totalLatency, worker[i].opLatency)
    /\ worker' = [worker EXCEPT ![i].pc = "select", ![i].opStart = 0,
                                ![i].opLatency = 0]
    /\ UNCHANGED <<wrapperSide, flagVars, loader, now, ctxDone, stopChan, wg, totalOps,
                   main, progress, tally>>

workerBenchmark(i) ==
    \/ WorkerSelect(i)
    \/ CallReadItem(i)
    \/ ReadItemDone(i)
    \/ AddOps(i)
    \/ AddLatency(i)

-----------------------------------------------------------------------------
(* The benchmark: executeBenchmark and runPointReadBenchmark *)

Started(i) == worker[i].pc # "none"

\* for i := 0; i < workers; i++ { wg.Add(1); go func(workerID int) {...}(i) }:
\* one round of the loop, starting the next worker.
StartWorker ==
    /\ main.pc = "spawn"
    /\ \E i \in Workers :
          /\ ~Started(i)
          /\ \A j \in Workers : j < i => Started(j)
          /\ worker' = [worker EXCEPT ![i].pc = "select"]
    /\ wg' = wg + 1
    /\ UNCHANGED <<wrapperSide, flagVars, loader, now, ctxDone, stopChan, totalOps,
                   totalLatency, main, progress, tally>>

\* The loop is over; the progress reporting goroutine is started and the
\* main flow goes to wait at <-benchCtx.Done().
StartProgress ==
    /\ main.pc = "spawn"
    /\ \A i \in Workers : Started(i)
    /\ progress' = "select"
    /\ main' = [main EXCEPT !.pc = "waitCtx"]
    /\ UNCHANGED <<wrapperSide, flagVars, loader, now, ctxDone, stopChan, wg, totalOps,
                   totalLatency, worker, tally>>

ProgressReportResets ==
    /\ progress = "select"
    /\ main.pc \in {"waitCtx", "closeStop", "wait", "load"}
    /\ totalOps' = 0
    /\ UNCHANGED <<wrapperSide, flagVars, loader, now, ctxDone, stopChan, wg,
                   totalLatency, worker, main, progress, tally>>

\* case <-progressTicker.C: the counter is loaded and a line is printed.
ProgressReport ==
    /\ progress = "select"
    /\ main.pc \in {"waitCtx", "closeStop", "wait", "load"}
    /\ UNCHANGED vars

\* case <-benchCtx.Done(): return
ProgressReturn ==
    /\ progress = "select"
    /\ ctxDone
    /\ progress' = "done"
    /\ UNCHANGED <<wrapperSide, flagVars, loader, now, ctxDone, stopChan, wg, totalOps,
                   totalLatency, worker, main, tally>>

DeadlineDueLate == now >= Deadline + 1

\* context.WithTimeout(ctx, duration): duration has passed since the start.
DeadlineDue == now >= Deadline

\* The deadline passes and benchCtx is done.
DeadlineFires ==
    /\ ~ctxDone
    /\ main.pc # "died"
    /\ DeadlineDue
    /\ ctxDone' = TRUE
    /\ UNCHANGED <<wrapperSide, flagVars, loader, now, stopChan, wg, totalOps,
                   totalLatency, worker, main, progress, tally>>

\* <-benchCtx.Done() returns.
AwaitDone ==
    /\ main.pc = "waitCtx"
    /\ ctxDone
    /\ main' = [main EXCEPT !.pc = "closeStop"]
    /\ UNCHANGED <<wrapperSide, flagVars, loader, now, ctxDone, stopChan, wg, totalOps,
                   totalLatency, worker, progress, tally>>

\* close(stopChan)
CloseStopChan ==
    /\ main.pc = "closeStop"
    /\ stopChan' = "closed"
    /\ main' = [main EXCEPT !.pc = "wait"]
    /\ UNCHANGED <<wrapperSide, flagVars, loader, now, ctxDone, wg, totalOps,
                   totalLatency, worker, progress, tally>>

JoinedAlways == TRUE

\* wg.Wait() returns when the counter of the WaitGroup is zero.
Joined == wg = 0

\* wg.Wait() returns.
WaitGroupWait ==
    /\ main.pc = "wait"
    /\ Joined
    /\ main' = [main EXCEPT !.pc = "load"]
    /\ UNCHANGED <<wrapperSide, flagVars, loader, now, ctxDone, stopChan, wg, totalOps,
                   totalLatency, worker, progress, tally>>

NoOpsNever(finalOps) == FALSE

\* if finalOps == 0
NoOps(finalOps) == finalOps = 0

\* The BenchmarkResults of the final counters after elapsed ticks; the two
\* quotients are kept as numerator and denominator.
BenchmarkResults(finalOps, finalLatency, elapsed) ==
    [set |-> TRUE, TotalOps |-> finalOps, ElapsedTime |-> elapsed,
     OpsPerSecond |-> <<finalOps, elapsed>>,
     LatencyMs |-> <<finalLatency, finalOps>>]

\* The rest of executeBenchmark: the elapsed time is taken, the two counters
\* are loaded, and the error "no operations completed" or the results are
\* returned.
Aggregate ==
    /\ main.pc = "load"
    /\ LET finalOps == totalOps
           finalLatency == totalLatency
       IN  main' = [main EXCEPT
                       !.pc = "returned",
                       !.finalOps = finalOps,
                       !.finalLatency = finalLatency,
                       !.results = IF NoOps(finalOps) THEN NoResults
                                   ELSE BenchmarkResults(finalOps, finalLatency, now),
                       !.err = IF NoOps(finalOps)
                               THEN Errorf("no operations completed")
                               ELSE NoError]
    /\ UNCHANGED <<wrapperSide, flagVars, loader, now, ctxDone, stopChan, wg, totalOps,
                   totalLatency, worker, progress, tally>>

\* runPointReadBenchmark after executeBenchmark: with an error it returns
\* "benchmark failed: ...", which Run prints as "Error running benchmark";
\* otherwise printResults prints the summary.
PrintOutcome ==
    /\ main.pc = "returned"
    /\ main' = [main EXCEPT !.pc = "exit",
                            !.printed = IF main.err.type # "nil" THEN "failure"
                                        ELSE "summary"]
    /\ UNCHANGED <<wrapperSide, flagVars, loader, now, ctxDone, stopChan, wg, totalOps,
                   totalLatency, worker, progress, tally>>

-----------------------------------------------------------------------------
(* The benchmark: time *)

\* Some goroutine has a step to take that takes no time, a read has lasted
\* as long as a read may, or the deadline is due: the clock waits.
Urgent ==
    \/ \E i \in Workers : worker[i].pc \in {"select", "call", "addOps", "addLatency"}
    \/ \E i \in Workers :
          worker[i].pc = "reading" /\ now - worker[i].opStart >= MaxOpTime
    \/ main.pc \in {"spawn", "closeStop", "load", "returned"}
    \/ main.pc \in {"createCosmosClient", "getTestDbClient", "ContainerClient"}
    \/ main.pc = "waitCtx" /\ ctxDone
    \/ main.pc = "wait" /\ Joined
    \/ ~ctxDone /\ DeadlineDue

\* One tick passes.  Only the reads take time.
Tick ==
    /\ now < MaxTime
    /\ main.pc \notin {"exit", "died"}
    /\ ~Urgent
    /\ now' = now + 1
    /\ UNCHANGED <<wrapperSide, flagVars, loader, ctxDone, stopChan, wg, totalOps,
                   totalLatency, worker, main, progress, tally>>

-----------------------------------------------------------------------------
(* The benchmark: specifications *)

\* The three wrappers as runPointReadBenchmark holds them when it calls
\* executeBenchmark: created, open, referenced.
InitOpenWrappers ==
    /\ exists = [w \in Kinds |-> TRUE]
    /\ handle = [w \in Kinds |-> w]
    /\ finalizer = [w \in Kinds |-> TRUE]
    /\ reachable = [w \in Kinds |-> TRUE]
    /\ frees = [w \in Kinds |-> 0]
    /\ closeCalled = [w \in Kinds |-> FALSE]
    /\ closeDone = [w \in Kinds |-> FALSE]
    /\ hookRan = [w \in Kinds |-> FALSE]
    /\ thr = [t \in AllThreads |-> Idle]
    /\ last = NoLast
    /\ recording = FALSE
    /\ crashed = FALSE

\* executeBenchmark has been called: benchCtx and stopChan are made, the
\* counters are zero, no goroutine is started.
InitBench ==
    /\ InitOpenWrappers
    /\ DefaultFlags
    /\ key = NoKey
    /\ now = 0
    /\ ctxDone = FALSE
    /\ stopChan = "open"
    /\ wg = 0
    /\ totalOps = 0
    /\ totalLatency = 0
    /\ worker = [i \in Workers |-> NotStarted]
    /\ main = [MainIdle EXCEPT !.pc = "spawn"]
    /\ progress = "none"
    /\ tally = NoTally
    /\ loader = LoaderIdle

NextBench ==
    \/ \E i \in Workers : workerBenchmark(i)
    \/ StartWorker
    \/ StartProgress
    \/ ProgressReport
    \/ ProgressReturn
    \/ DeadlineFires
    \/ AwaitDone
    \/ CloseStopChan
    \/ WaitGroupWait
    \/ Aggregate
    \/ PrintOutcome
    \/ Tick

\* One run of the point read benchmark.
SpecBench == InitBench /\ [][NextBench]_vars

\* ctx is cancelled by whoever holds its parent.
CancelContext ==
    /\ main.pc = "caller"
    /\ ~ctxDone
    /\ ctxDone' = TRUE
    /\ UNCHANGED <<wrapperSide, flagVars, loader, now, stopChan, wg, totalOps,
                   totalLatency, worker, main, progress, tally>>

\* stopChan is closed by whoever holds it.
CloseStopEarly ==
    /\ main.pc = "caller"
    /\ stopChan = "open"
    /\ stopChan' = "closed"
    /\ UNCHANGED <<wrapperSide, flagVars, loader, now, ctxDone, wg, totalOps,
                   totalLatency, worker, main, progress, tally>>

\* workerBenchmark runs in every worker goroutine for a caller that holds ctx
\* and stopChan and may fire either at any time.
InitWorkers ==
    /\ InitOpenWrappers
    /\ DefaultFlags
    /\ key = NoKey
    /\ now = 0
    /\ ctxDone = FALSE
    /\ stopChan = "open"
    /\ wg = NumWorkers
    /\ totalOps = 0
    /\ totalLatency = 0
    /\ worker = [i \in Workers |-> [NotStarted EXCEPT !.pc = "select"]]
    /\ main = [MainIdle EXCEPT !.pc = "caller"]
    /\ progress = "none"
    /\ tally = NoTally
    /\ loader = LoaderIdle

NextWorkers ==
    \/ \E i \in Workers : workerBenchmark(i)
    \/ CancelContext
    \/ CloseStopEarly
    \/ DeadlineFires
    \/ Tick

\* workerBenchmark under any use of its two stop signals.
SpecWorkers == InitWorkers /\ [][NextWorkers]_vars

-----------------------------------------------------------------------------
(* The benchmark: executeBenchmark under fair scheduling *)

\* The context executeBenchmark was given is cancelled by its holder while
\* executeBenchmark starts its goroutines or waits: benchCtx is done with it.
ParentCancelled ==
    /\ main.pc \in {"spawn", "waitCtx"}
    /\ ~ctxDone
    /\ ctxDone' = TRUE
    /\ UNCHANGED <<wrapperSide, flagVars, loader, now, stopChan, wg, totalOps,
                   totalLatency, worker, main, progress, tally>>

\* The steps of the goroutine of executeBenchmark.
MainSteps ==
    \/ StartWorker
    \/ StartProgress
    \/ AwaitDone
    \/ CloseStopChan
    \/ WaitGroupWait
    \/ Aggregate
    \/ PrintOutcome

NextBenchLive == NextBench \/ ParentCancelled

\* The Go scheduler runs every goroutine that can run, every foreign read
\* returns, time passes and the timer of benchCtx fires.
FairBench ==
    /\ \A i \in Workers : WF_vars(workerBenchmark(i))
    /\ WF_vars(MainSteps)
    /\ WF_vars(ProgressReturn)
    /\ WF_vars(DeadlineFires)
    /\ WF_vars(Tick)

\* One run of executeBenchmark, its context cancellable, fairly scheduled.
SpecBenchLive == InitBench /\ [][NextBenchLive]_vars /\ FairBench

-----------------------------------------------------------------------------
(* The benchmark: runPointReadBenchmark from its start to its return *)

\* fmt.Errorf(text + ": %w", err)
Wrapf(text, err) ==
    [type |-> "wrapError", Code |-> err.Code, Message |-> err.Message,
     text |-> text]

\* The goroutine of runPointReadBenchmark in the wrappers' calls.
MainGoroutine == 1

\* Where runPointReadBenchmark acquires the wrapper of kind w.
AcquirePc(w) ==
    CASE w = "client"    -> "createCosmosClient"
      [] w = "database"  -> "getTestDbClient"
      [] w = "container" -> "ContainerClient"

\* Where it goes on after the wrapper of kind w.
AfterAcquire(w) ==
    CASE w = "client"    -> "getTestDbClient"
      [] w = "database"  -> "ContainerClient"
      [] w = "container" -> "spawn"

\* The wrapper whose method gives the wrapper of kind w.
ParentOf(w) ==
    CASE w = "client"    -> "none"
      [] w = "database"  -> "client"
      [] w = "container" -> "database"

\* The constructor that gives the wrapper of kind w, the number of strings
\* it copies, and the text the harness wraps its error in.
ConstructorOf(w) ==
    CASE w = "client"    -> "NewCosmosClientWithKey"
      [] w = "database"  -> "DatabaseClient"
      [] w = "container" -> "ContainerClient"

SetupText(w) ==
    CASE w = "client"    -> "failed to create Cosmos client"
      [] w = "database"  -> "failed to get database client"
      [] w = "container" -> "failed to get container client"

DeferFirstInFirstOut(w, defers) == defers \o <<w>>

\* defer client.Close(): the deferred calls run last deferred first.
Defer(w, defers) == <<w>> \o defers

\* client, err := createCosmosClient(cmd) (likewise getTestDbClient and
\* dbClient.ContainerClient): the constructor is called on the wrapper got
\* before, which is open.  With an error runPointReadBenchmark returns it,
\* wrapped; with a nil error it defers Close on what it was given, which is
\* nil when the constructor returned neither a wrapper nor an error.
Acquire(w) ==
    /\ main.pc = AcquirePc(w)
    /\ ParentOf(w) # "none" => exists[ParentOf(w)]
    /\ \E r \in Outcomes({NewHandle}) :
          LET res == ConstructorResult(ConstructorOf(w), ParentOf(w), FALSE,
                                       IF w = "client" THEN 2 ELSE 1,
                                       r.code, r.cerr, w)
          IN  /\ IF Failed(r.code) THEN UNCHANGED wrapperVars ELSE Opened(w)
              /\ IF ErrNil(res.err)
                 THEN main' = [main EXCEPT
                                  !.pc = AfterAcquire(w),
                                  !.defers = Defer(w, @),
                                  !.failed = IF Failed(r.code) THEN w ELSE @]
                 ELSE main' = [main EXCEPT
                                  !.pc = "exit",
                                  !.err = Wrapf(SetupText(w), res.err),
                                  !.printed = "failure",
                                  !.failed = w]
    /\ UNCHANGED <<thr, last, recording, crashed, flagVars, loader, now, ctxDone,
                   stopChan, wg, totalOps, totalLatency, worker, progress, tally>>

\* The method is called on a nil wrapper: reading the receiver's field is a
\* nil pointer dereference and the goroutine panics.  While it unwinds, the
\* deferred Close of the same nil wrapper is the first to run.  The process
\* ends; runPointReadBenchmark does not return.
NilReceiverPanics(w) ==
    /\ main.pc = AcquirePc(w)
    /\ ParentOf(w) # "none"
    /\ ~exists[ParentOf(w)]
    /\ main' = [main EXCEPT !.pc = "died"]
    /\ UNCHANGED <<wrapperSide, flagVars, loader, now, ctxDone, stopChan, wg, totalOps,
                   totalLatency, worker, progress, tally>>

\* A goroutine of a process that has ended.
Dead == [NotStarted EXCEPT !.pc = "dead"]

\* container.ReadItem is called by worker i on a nil wrapper: a nil pointer
\* dereference in the worker's goroutine, which ends the process and with it
\* every goroutine.
WorkerPanics(i) ==
    /\ worker[i].pc = "call"
    /\ ~exists["container"]
    /\ main' = [main EXCEPT !.pc = "died"]
    /\ worker' = [j \in Workers |-> Dead]
    /\ progress' = "dead"
    /\ UNCHANGED <<wrapperSide, flagVars, loader, now, ctxDone, stopChan, wg, totalOps,
                   totalLatency, tally>>

\* runPointReadBenchmark has left its body and the next deferred Close is
\* called, on the wrapper of kind w: Close's own first step.
RunDeferred ==
    /\ main.pc = "exit"
    /\ main.defers # <<>>
    /\ thr[MainGoroutine].pc = "idle"
    /\ ~crashed
    /\ LET w == Head(main.defers)
       IN  /\ exists[w]
           /\ finalizer' = SetFinalizerNil(w)
           /\ closeCalled' = [closeCalled EXCEPT ![w] = TRUE]
           /\ finalizeCheck(MainGoroutine, w, closeDone[w])
    /\ main' = [main EXCEPT !.defers = Tail(@)]
    /\ UNCHANGED <<exists, handle, reachable, frees, hookRan, recording, crashed,
                   flagVars, loader, now, ctxDone, stopChan, wg, totalOps, totalLatency,
                   worker, progress, tally>>

\* runPointReadBenchmark has returned to Run.
RunReturned ==
    /\ main.pc = "exit"
    /\ main.defers = <<>>
    /\ thr[MainGoroutine].pc = "idle"

\* runPointReadBenchmark is called: no wrapper exists.
InitRun ==
    /\ InitWrappers
    /\ recording = FALSE
    /\ DefaultFlags
    /\ key = NoKey
    /\ now = 0
    /\ ctxDone = FALSE
    /\ stopChan = "open"
    /\ wg = 0
    /\ totalOps = 0
    /\ totalLatency = 0
    /\ worker = [i \in Workers |-> NotStarted]
    /\ main = [MainIdle EXCEPT !.pc = "createCosmosClient"]
    /\ progress = "none"
    /\ tally = NoTally
    /\ loader = LoaderIdle

NextRun ==
    \/ \E w \in Kinds : Acquire(w)
    \/ \E w \in Kinds : NilReceiverPanics(w)
    \/ \E i \in Workers : WorkerPanics(i)
    \/ \E i \in Workers : workerBenchmark(i)
    \/ StartWorker
    \/ StartProgress
    \/ ProgressReport
    \/ ProgressReturn
    \/ DeadlineFires
    \/ AwaitDone
    \/ CloseStopChan
    \/ WaitGroupWait
    \/ Aggregate
    \/ PrintOutcome
    \/ Tick
    \/ RunDeferred
    \/ finalizeFree(MainGoroutine)
    \/ finalizeClear(MainGoroutine)

\* One run of runPointReadBenchmark, from its call to its return.
SpecRun == InitRun /\ [][NextRun]_vars

-----------------------------------------------------------------------------
(* The data loader: insertSampleDocuments *)

loaderFrame == <<wrapperSide, benchVars, itemCount, partitionCount, key>>

\* for w := 0; w < concurrency; w++ { wg.Add(1); go func() {...}() }: one
\* round of the loop; after the last round the sending loop begins.
StartLoaderWorker ==
    /\ loader.pc = "spawn"
    /\ loader.started < concurrency
    /\ loader' = [loader EXCEPT
                     !.started = @ + 1,
                     !.wg = @ + 1,
                     !.w[loader.started + 1].pc = "range",
                     !.pc = IF loader.started + 1 = concurrency THEN "send" ELSE @]
    /\ UNCHANGED loaderFrame

\* jobs <- i: the send goes through when the buffer has room.
SendJob ==
    /\ loader.pc = "send"
    /\ loader.i < itemCount
    /\ Len(loader.jobs) < Capacity(itemCount)
    /\ loader' = [loader EXCEPT !.jobs = Append(@, loader.i), !.i = @ + 1]
    /\ UNCHANGED loaderFrame

\* The sending loop is over: close(jobs); wg.Wait() is reached.
CloseJobs ==
    /\ loader.pc = "send"
    /\ loader.i >= itemCount
    /\ loader' = [loader EXCEPT !.jobsClosed = TRUE, !.pc = "wait"]
    /\ UNCHANGED loaderFrame

\* for j := range jobs: worker k receives the next index.
ReceiveJob(k) ==
    /\ loader.w[k].pc = "range"
    /\ loader.jobs # <<>>
    /\ LET j == Head(loader.jobs)
       IN  loader' = [loader EXCEPT !.jobs = Tail(@),
                                    !.w[k].pc = "insert",
                                    !.w[k].j = j,
                                    !.taken[j] = @ + 1]
    /\ UNCHANGED loaderFrame

\* for j := range jobs ends for worker k: jobs is closed and drained.  The
\* worker returns and its deferred wg.Done() runs.
RangeEnds(k) ==
    /\ loader.w[k].pc = "range"
    /\ loader.jobs = <<>>
    /\ loader.jobsClosed
    /\ loader' = [loader EXCEPT !.w[k].pc = "done", !.wg = @ - 1]
    /\ UNCHANGED loaderFrame

\* The body of the loop of worker k up to the send: the document is made and
\* marshalled and CreateItem is called, which succeeds or fails.
InsertItem(k) ==
    /\ loader.w[k].pc = "insert"
    /\ \E ok \in BOOLEAN :
          LET j == loader.w[k].j
          IN  loader' = [loader EXCEPT
                            !.w[k].pc = "result",
                            !.w[k].err = IF ok THEN NoError ELSE InsertError(j),
                            !.failed = IF ok THEN @ ELSE @ \cup {j}]
    /\ UNCHANGED loaderFrame

\* results <- err by worker k: the send goes through when the buffer has
\* room; the loop goes round.
SendResult(k) ==
    /\ loader.w[k].pc = "result"
    /\ Len(loader.results) < Capacity(itemCount)
    /\ loader' = [loader EXCEPT !.results = Append(@, loader.w[k].err),
                                !.w[k].pc = "range",
                                !.w[k].j = 0,
                                !.w[k].err = NoError]
    /\ UNCHANGED loaderFrame

\* wg.Wait() returns.
LoaderWait ==
    /\ loader.pc = "wait"
    /\ loader.wg = 0
    /\ loader' = [loader EXCEPT !.pc = "collect"]
    /\ UNCHANGED loaderFrame

\* The errors among the results, in their order.
RECURSIVE NonNil(_)
NonNil(results) ==
    IF results = <<>> THEN <<>>
    ELSE (IF ErrNil(Head(results)) THEN <<>> ELSE <<Head(results)>>)
         \o NonNil(Tail(results))

\* close(results); the results are drained and the errors collected; with an
\* error collected errors.Join(errs...) is returned, otherwise nil.
CollectResults ==
    /\ loader.pc = "collect"
    /\ LET errs == NonNil(loader.results)
       IN  loader' = [loader EXCEPT
                         !.resultsClosed = TRUE,
                         !.results = <<>>,
                         !.errs = errs,
                         !.ret = [set |-> TRUE, nil |-> Len(errs) = 0,
                                  joined |-> errs],
                         !.pc = "returned"]
    /\ UNCHANGED loaderFrame

\* insertSampleDocuments is called with some itemCount and partitionCount:
\* the two channels are made.
InitLoader ==
    /\ InitWrappers /\ recording = FALSE
    /\ itemCount \in 0..MaxItems
    /\ partitionCount = DefaultPartitionCount
    /\ key = NoKey
    /\ now = 0
    /\ ctxDone = FALSE
    /\ stopChan = "open"
    /\ wg = 0
    /\ totalOps = 0
    /\ totalLatency = 0
    /\ worker = [i \in Workers |-> NotStarted]
    /\ main = MainIdle
    /\ progress = "none"
    /\ tally = NoTally
    /\ loader = [LoaderIdle EXCEPT !.pc = "spawn"]

NextLoader ==
    \/ StartLoaderWorker
    \/ SendJob
    \/ CloseJobs
    \/ \E k \in LoaderWorkers : ReceiveJob(k)
    \/ \E k \in LoaderWorkers : RangeEnds(k)
    \/ \E k \in LoaderWorkers : InsertItem(k)
    \/ \E k \in LoaderWorkers : SendResult(k)
    \/ LoaderWait
    \/ CollectResults

\* One call of insertSampleDocuments; the Go scheduler runs some goroutine
\* that can run.
SpecLoader == InitLoader /\ [][NextLoader]_vars /\ WF_vars(NextLoader)

-----------------------------------------------------------------------------
(* Idempotent close *)

\* A Close of wrapper w that began after an earlier Close of w had returned
\* returns in the step taken.
LaterCloseReturns(w) == last'.op = "Close" /\ last'.w = w /\ last'.late

\* C1.  With one goroutine calling: however many Close calls a wrapper has
\* had, its foreign destructor has been called at most once, and exactly once
\* as soon as the first Close has returned; a later Close calls no foreign
\* function and leaves every field of the wrapper, its finalizer and the
\* destructor count as they were.
C1_IdempotentClose ==
    /\ [](\A w \in Kinds :
            /\ frees[w] <= 1
            /\ closeDone[w] => frees[w] = 1 /\ handle[w] = NULL)
    /\ [][\A w \in Kinds :
            LaterCloseReturns(w) => /\ ~last'.reached
                                    /\ UNCHANGED wrapperVars]_vars

\* A second Close of a wrapper has returned, and its destructor ran once.
C1_Witness ==
    /\ last.op = "Close" /\ last.late /\ ~last.reached
    /\ frees[last.w] = 1 /\ handle[last.w] = NULL

-----------------------------------------------------------------------------
(* Post-close safety *)

\* The error each method returns on a closed wrapper.
IsClosedHandleError(op, err) ==
    /\ err.type = "errorString"
    /\ \/ op = "DatabaseClient" /\ err.text = "client is closed"
       \/ op = "ContainerClient" /\ err.text = "database client is closed"
       \/ op = "ReadItem" /\ err.text = "container client is closed"

\* C2.  A DatabaseClient, ContainerClient or ReadItem call that begins after
\* a Close of its wrapper has returned never gets to the foreign call, and
\* returns the closed-handle error and nothing else, having called no foreign
\* function and allocated no C string.
C2_PostCloseSafety ==
    /\ \A t \in Threads : thr[t].pc \in {"call", "inflight"} => ~thr[t].late
    /\ (last.op \in {"DatabaseClient", "ContainerClient", "ReadItem"} /\ last.late)
          => /\ IsClosedHandleError(last.op, last.err)
             /\ last.wrapper = "nil" /\ last.text = <<>>
             /\ ~last.reached
             /\ last.allocs = 0 /\ last.goStrings = 0 /\ last.strFrees = 0

\* ReadItem was called on a container whose Close had returned, and returned.
C2_Witness ==
    /\ last.op = "ReadItem" /\ last.late /\ closeDone["container"]
    /\ last.err.text = "container client is closed"

-----------------------------------------------------------------------------
(* One release per handle *)

\* C3.  The foreign destructor of a handle is never called twice: stated for
\* any number of goroutines calling Close and the finalizer goroutine.
C3_ReleasedOnce == \A w \in Kinds : frees[w] <= 1

\* C4.  Close disarms the finalizer: the runtime never starts the finalizer of
\* a wrapper that Close was called on, so a release was made by Close or by
\* the finalizer, never by both.
C4_CloseDisarmsFinalizer ==
    \A w \in Kinds :
        /\ ~(hookRan[w] /\ closeCalled[w])
        /\ (thr[FinalizerGoroutine].pc # "idle" /\ thr[FinalizerGoroutine].w = w)
              => ~closeCalled[w]
        /\ closeCalled[w] => ~finalizer[w]
        /\ frees[w] > 0 => (hookRan[w] # closeCalled[w])

\* One wrapper was released by its finalizer, never closed; another was
\* closed, then dropped, and its finalizer never ran.
C4_Witness ==
    \E w1, w2 \in Kinds :
        /\ hookRan[w1] /\ ~closeCalled[w1] /\ frees[w1] = 1 /\ handle[w1] = NULL
        /\ closeDone[w2] /\ ~reachable[w2] /\ ~hookRan[w2] /\ frees[w2] = 1

-----------------------------------------------------------------------------
(* The handle field *)

\* A finalize call on wrapper w has called the destructor and has not yet set
\* the field to nil.
Releasing(w) == \E t \in AllThreads : thr[t].pc = "clear" /\ thr[t].w = w

\* C5.  Outside the two statements of a finalize call that release the handle
\* (the destructor call and the assignment of nil that follows it), the field
\* of a wrapper is non-nil exactly when its destructor has not been called;
\* and a handle whose destructor has been called is never handed to a foreign
\* function again, neither to a method's foreign call nor to the destructor.
C5_HandleInvariant ==
    /\ \A w \in Kinds :
          /\ ~exists[w] => handle[w] = NULL /\ frees[w] = 0
          /\ (exists[w] /\ ~Releasing(w))
                => ((handle[w] # NULL) <=> (frees[w] = 0))
    /\ \A t \in AllThreads :
          (thr[t].pc = "inflight" /\ thr[t].arg # NULL) => ~thr[t].stale
    /\ \A w \in Kinds : frees[w] < 2

-----------------------------------------------------------------------------
(* Close against a call in flight *)

\* C6.  Nothing keeps Close from releasing the container's handle under a
\* ReadItem that has passed its open check: while goroutine t is between the
\* check and the return of its foreign read, another goroutine can always
\* enter Close on the container, and one that is in finalize can always call
\* the destructor.
C6_CloseNotGuarded ==
    \A t, u \in Threads :
        (/\ t # u
         /\ ~crashed
         /\ thr[t].w = "container"
         /\ thr[t].pc \in {"call", "inflight"})
        => /\ (thr[u].pc = "idle" /\ reachable["container"])
                 => ENABLED Close(u, "container")
           /\ (thr[u].pc = "free" /\ thr[u].w = "container")
                 => ENABLED finalizeFree(u)

\* The foreign read of goroutine t, which passed the open check and was handed
\* the live handle, has not returned, and the Close of another goroutine has
\* called the destructor on that handle.
C6_Witness ==
    \E t, u \in Threads :
        /\ t # u
        /\ thr[t].pc = "inflight" /\ thr[t].w = "container"
        /\ thr[t].arg = "container" /\ ~thr[t].stale
        /\ thr[u].pc = "clear" /\ thr[u].w = "container"
        /\ frees["container"] = 1 /\ closeCalled["container"]
        /\ ~hookRan["container"]

-----------------------------------------------------------------------------
(* What the constructors and ReadItem return *)

Constructors == {"NewCosmosClientWithKey", "DatabaseClient", "ContainerClient"}

\* C7.  A constructor returns a wrapper or an error, never neither and never
\* both; after its foreign call the wrapper is non-nil and open exactly when
\* the call's status was success, and the error is non-nil whenever the status
\* was not success.
C7_WrapperXorError ==
    last.op \in Constructors =>
        /\ (last.wrapper # "nil") # (last.err.type # "nil")
        /\ last.reached =>
              /\ (last.wrapper # "nil") <=> (last.code = COSMOS_ERROR_CODE_SUCCESS)
              /\ last.wrapper # "nil" =>
                    exists[last.wrapper] /\ handle[last.wrapper] # NULL
              /\ last.code # COSMOS_ERROR_CODE_SUCCESS => last.err.type # "nil"

\* C8.  When the foreign read returns a status other than success, ReadItem
\* returns a non-nil CosmosError and the empty string, and copies no payload.
C8_ReadItemForeignError ==
    (/\ last.op = "ReadItem"
     /\ last.reached
     /\ last.code # COSMOS_ERROR_CODE_SUCCESS)
    => /\ last.err.type = "CosmosError"
       /\ last.text = <<>>
       /\ last.goStrings = 0 /\ last.strFrees = 0

\* C9.  When the foreign read returns success and a null payload pointer,
\* ReadItem returns the error "received null JSON response" and the empty
\* string, converts no C string and does not call cosmos_string_free.
C9_NullResponse ==
    (/\ last.op = "ReadItem"
     /\ last.reached
     /\ last.code = COSMOS_ERROR_CODE_SUCCESS
     /\ last.payload.null)
    => /\ last.err.type = "errorString"
       /\ last.err.text = "received null JSON response"
       /\ last.text = <<>>
       /\ last.goStrings = 0 /\ last.strFrees = 0

\* ReadItem has returned after a foreign read that gave success and a null
\* payload: an error, no conversion, no release.
C9_Witness ==
    /\ last.op = "ReadItem" /\ last.reached
    /\ last.code = COSMOS_ERROR_CODE_SUCCESS /\ last.payload.null
    /\ last.err.text = "received null JSON response"
    /\ last.goStrings = 0 /\ last.strFrees = 0

\* The return observed handed the foreign call's cosmos_error to
\* newCosmosError.
Translated == last.reached /\ last.code # COSMOS_ERROR_CODE_SUCCESS

\* C10.  For every cosmos_error handed to it, newCosmosError returns nil when
\* the code is 0, whatever the message; otherwise it returns a CosmosError
\* whose Code is the input code and whose Message is the bytes of the input
\* message, or the empty string for a null message pointer.  No error with
\* Code 0 is ever returned.
C10_ErrorTranslator ==
    /\ Translated =>
          /\ last.cerr.code = 0 => last.err.type = "nil"
          /\ last.cerr.code # 0 =>
                /\ last.err.type = "CosmosError"
                /\ last.err.Code = last.cerr.code
                /\ last.cerr.message.null => last.err.Message = <<>>
                /\ ~last.cerr.message.null =>
                      last.err.Message \o <<0>> = last.cerr.message.buf
    /\ ~(last.err.type = "CosmosError" /\ last.err.Code = 0)

\* A cosmos_error with code 404 and a null message pointer was translated to
\* a CosmosError with Code 404 and the empty Message.
C10_Witness ==
    /\ Translated
    /\ last.cerr.code = 404 /\ last.cerr.message.null
    /\ last.err.type = "CosmosError"
    /\ last.err.Code = 404 /\ last.err.Message = <<>>

-----------------------------------------------------------------------------
(* C strings *)

\* The number of C.CString copies an operation makes before its foreign call.
CStringsOf(op) == IF op \in {"NewCosmosClientWithKey", "ReadItem"} THEN 2 ELSE 1

\* C11.  Every operation that reached its foreign call made its C.CString
\* copies of the input text (two for NewCosmosClientWithKey and ReadItem, one
\* for DatabaseClient and ContainerClient) and has called C.free once for each
\* of them when it returns, whether it returns a result, a translated error or
\* the null-response error; an operation that returned at its open check made
\* no copy.  No copy is left allocated at a return.
C11_InputStringsReleased ==
    last.op \in Constructors \cup {"ReadItem"} =>
        /\ last.cfrees = last.allocs
        /\ last.allocs = IF last.reached THEN CStringsOf(last.op) ELSE 0

\* ReadItem has returned the null-response error with both of its copies
\* released.
C11_Witness ==
    /\ last.op = "ReadItem" /\ last.reached
    /\ last.err.text = "received null JSON response"
    /\ last.allocs = 2 /\ last.cfrees = 2

\* ReadItem returned a result: success status and a payload.
ReadSucceeded ==
    /\ last.op = "ReadItem" /\ last.reached
    /\ last.code = COSMOS_ERROR_CODE_SUCCESS /\ ~last.payload.null

\* C12.  A ReadItem that got success and a non-null payload copied the payload
\* with C.GoString first and then released it with one call of
\* cosmos_string_free: one copy, one release, in that order, the string
\* returned being the payload's bytes; the buffer is not read after the
\* release and not released twice.  No other return touches a payload buffer.
C12_PayloadReleasedOnce ==
    /\ ReadSucceeded =>
          /\ last.bufOps = <<"GoString", "cosmos_string_free">>
          /\ last.goStrings = 1 /\ last.strFrees = 1
          /\ last.text \o <<0>> = last.payload.buf
          /\ last.err.type = "nil"
    /\ ~ReadSucceeded => last.bufOps = <<>> /\ last.strFrees = 0

\* ReadItem returned the two bytes of its payload after copying and releasing
\* the buffer.
C12_Witness ==
    /\ ReadSucceeded
    /\ last.text = <<123, 125>>
    /\ last.bufOps = <<"GoString", "cosmos_string_free">>

-----------------------------------------------------------------------------
(* Key mapping *)

\* The number a sequence of decimal digit characters denotes.
RECURSIVE ParseInt(_)
ParseInt(digits) ==
    IF digits = <<>> THEN 0
    ELSE LET d == CHOOSE v \in 0..9 : DigitChars[v + 1] = digits[Len(digits)]
         IN  10 * ParseInt(SubSeq(digits, 1, Len(digits) - 1)) + d

\* The text is prefix followed by the decimal digits of n, without sign,
\* padding or leading zero.
IsPrefixThenNumber(text, prefix, n) ==
    LET k == Len(prefix)
        digits == SubSeq(text, k + 1, Len(text))
    IN  /\ Len(text) > k
        /\ SubSeq(text, 1, k) = prefix
        /\ \A i \in 1..Len(digits) : \E v \in 0..9 : DigitChars[v + 1] = digits[i]
        /\ Len(digits) > 1 => digits[1] # "0"
        /\ ParseInt(digits) = n

\* C13.  The index a worker draws lies in [0, itemCount); its read is issued
\* with the item id "item" followed by the index in decimal and the partition
\* key "partition" followed by index mod partitionCount in decimal; that is
\* the ID and PartitionKey createRandomDocsItem gives the document of the same
\* index for the same partitionCount.  With itemCount 10000 and partitionCount
\* 10, index 2345 gives item2345 and partition5.
C13_KeyMapping ==
    key.by = "worker" =>
        /\ key.index \in 0..(itemCount - 1)
        /\ IsPrefixThenNumber(key.itemID, <<"i", "t", "e", "m">>, key.index)
        /\ \E r \in 0..(partitionCount - 1) :
              /\ \E q \in 0..key.index : key.index = q * partitionCount + r
              /\ IsPrefixThenNumber(key.partitionKey,
                                    <<"p", "a", "r", "t", "i", "t", "i", "o", "n">>, r)
        /\ LET item == createRandomDocsItem(key.index, partitionCount)
           IN  key.itemID = item.ID /\ key.partitionKey = item.PartitionKey
        /\ (itemCount = 10000 /\ partitionCount = 10 /\ key.index = 2345) =>
              /\ key.itemID = <<"i", "t", "e", "m", "2", "3", "4", "5">>
              /\ key.partitionKey =
                    <<"p", "a", "r", "t", "i", "t", "i", "o", "n", "5">>

\* A worker drew index 2345 with the default flags and formatted item2345 and
\* partition5.
C13_Witness ==
    /\ key.by = "worker" /\ key.index = 2345
    /\ itemCount = 10000 /\ partitionCount = 10
    /\ key.itemID = <<"i", "t", "e", "m", "2", "3", "4", "5">>
    /\ key.partitionKey = <<"p", "a", "r", "t", "i", "t", "i", "o", "n", "5">>

-----------------------------------------------------------------------------
(* The counters *)

RECURSIVE SumOver(_, _)
SumOver(f, S) ==
    IF S = {} THEN 0
    ELSE LET x == CHOOSE y \in S : TRUE IN f[x] + SumOver(f, S \ {x})

\* The reads that returned an error so far.
FailedReads == tally.failed

At(pcs) == {i \in Workers : worker[i].pc \in pcs}

\* The latencies measured and not yet added to totalLatency.
LatencyToAdd == SumOver([i \in Workers |-> worker[i].opLatency], Workers)

RunEnded == main.pc \in {"returned", "exit"}

\* C14.  At every moment the success counter is the number of reads started
\* less those that failed, those still in flight and those that succeeded and
\* are about to be counted, and the latency sum is the sum of the latencies of
\* the successful reads less what is about to be added; so when the run has
\* ended the success counter is the number of attempts less the number of
\* failed attempts and the latency sum is the sum over the successful ones.
\* A step in which a read fails changes neither counter, and a counter changes
\* only by a worker adding 1 to the successes or its read's latency to the sum.
C14_FaultTolerantCounting ==
    /\ [](/\ totalOps + Cardinality(At({"addOps"}))
               = tally.reads - FailedReads - Cardinality(At({"reading"}))
          /\ totalLatency + LatencyToAdd = tally.latency
          /\ RunEnded =>
                /\ main.finalOps = tally.reads - FailedReads
                /\ main.finalLatency = tally.latency
                /\ totalOps = main.finalOps /\ totalLatency = main.finalLatency)
    /\ [][/\ tally'.failed # tally.failed
                => UNCHANGED <<totalOps, totalLatency>>
          /\ totalOps' # totalOps =>
                /\ totalOps' = totalOps + 1
                /\ \E i \in Workers :
                      worker[i].pc = "addOps" /\ worker'[i].pc = "addLatency"
          /\ totalLatency' # totalLatency =>
                \E i \in Workers :
                   /\ worker[i].pc = "addLatency" /\ worker'[i].pc = "select"
                   /\ totalLatency' = totalLatency + worker[i].opLatency]_vars

\* The run ended after reads that failed and reads that succeeded, and its
\* counter is the attempts less the failures.
C14_Witness ==
    /\ main.pc = "exit"
    /\ FailedReads >= 2 /\ totalOps >= 2
    /\ totalOps = tally.reads - FailedReads
    /\ totalLatency = tally.latency /\ totalLatency > totalOps

-----------------------------------------------------------------------------
(* Errors, the deadline and the stop signal *)

\* C15.  A step in which the read of a worker fails leaves that worker at the
\* top of its loop, leaves every other worker, the main flow, benchCtx and
\* stopChan as they were, and is followed, for that worker, by the next
\* iteration and its read unless a stop signal is ready; a worker at the top
\* of its loop can always take its step; and a worker returns only from the
\* top of its loop and only when benchCtx is done or stopChan is closed.
C15_ContinuesOnError ==
    /\ [](\A i \in Workers : worker[i].pc = "select" => ENABLED WorkerSelect(i))
    /\ [][\A i \in Workers :
            /\ (tally'.failed # tally.failed /\ worker'[i] # worker[i]) =>
                  /\ worker'[i].pc = "select"
                  /\ \A j \in Workers \ {i} : worker'[j] = worker[j]
                  /\ UNCHANGED <<main, ctxDone, stopChan, wg, progress>>
            /\ (worker[i].pc = "select" /\ worker'[i] # worker[i]
                  /\ ~ctxDone /\ stopChan = "open")
                  => worker'[i].pc = "call"
            /\ (worker[i].pc = "call" /\ worker'[i] # worker[i])
                  => worker'[i].pc = "reading"
            /\ (worker[i].pc # "returned" /\ worker'[i].pc = "returned")
                  => /\ worker[i].pc = "select"
                     /\ ctxDone \/ stopChan = "closed"]_vars

\* Every read that has returned so far failed, there were more of them than
\* workers, so that some worker had two in a row, and every worker is in its
\* next read.
C15_Witness ==
    /\ totalOps = 0 /\ At({"addOps", "addLatency"}) = {}
    /\ ~ctxDone /\ main.pc = "waitCtx"
    /\ tally.failed > NumWorkers
    /\ \A i \in Workers : worker[i].pc = "reading"

\* C16 as claimed.  Once benchCtx is done no worker starts a read: no step
\* taken with benchCtx done puts a worker into its foreign read.
C16_NoReadStartedAfterDeadline ==
    [][\A i \in Workers :
         (ctxDone /\ worker[i].pc # "reading") => worker'[i].pc # "reading"]_vars

\* C16, amended.  Once benchCtx is done no worker begins a loop iteration: a
\* worker at the top of its loop returns.  A worker that took the default
\* branch of its select before benchCtx was done still calls ReadItem once,
\* possibly after benchCtx is done.  A read in flight is left only by its own
\* return, after which the worker handles the result as at any other time,
\* and with benchCtx done that return stays possible.
C16_NoIterationAfterDeadline ==
    /\ [](\A i \in Workers :
            (ctxDone /\ worker[i].pc = "reading" /\ now > worker[i].opStart)
               => ENABLED ReadItemDone(i))
    /\ [][\A i \in Workers :
            /\ (ctxDone /\ worker[i].pc # "call") => worker'[i].pc # "call"
            /\ (ctxDone /\ worker[i].pc = "select" /\ worker'[i] # worker[i])
                  => worker'[i].pc = "returned"
            /\ (worker'[i].pc = "reading" /\ worker[i].pc # "reading")
                  => worker[i].pc = "call"
            /\ (worker[i].pc = "reading" /\ worker'[i].pc # "reading")
                  => /\ worker'[i].pc \in {"select", "addOps"}
                     /\ now > worker[i].opStart]_vars

\* After the deadline one worker is counting a read that was in flight when
\* the deadline passed, and another is in a read it called at the deadline.
C16_Witness ==
    /\ ctxDone /\ now > Deadline
    /\ \E i, j \in Workers :
          /\ worker[i].pc = "addOps" /\ worker[i].opStart < Deadline
          /\ worker[j].pc = "reading" /\ worker[j].opStart = Deadline

\* C17.  With the deadline Deadline ticks after the start and every read
\* taking at most MaxOpTime ticks, executeBenchmark has returned, with every
\* worker returned and the WaitGroup at zero, by the time Deadline + MaxOpTime:
\* the clock never passes that time before the return.
C17_BoundedOvershoot ==
    /\ now <= Deadline + MaxOpTime
    /\ RunEnded => /\ \A i \in Workers : worker[i].pc = "returned"
                   /\ wg = 0
    /\ main.results.set => main.results.ElapsedTime <= Deadline + MaxOpTime

\* executeBenchmark returned exactly Deadline + MaxOpTime after its start.
C17_Witness ==
    /\ main.pc = "exit"
    /\ now = Deadline + MaxOpTime
    /\ main.results.set /\ main.results.ElapsedTime = Deadline + MaxOpTime

\* One of the two signals has fired.
StopSignalled == ctxDone \/ stopChan = "closed"

\* C18 as claimed.  With benchCtx done or stopChan closed a worker at the top
\* of its loop returns with its next step, and no worker starts a read: a
\* worker finishes at most the read it has in flight.
C18_NoReadAfterSignal ==
    [][\A i \in Workers :
         /\ (StopSignalled /\ worker[i].pc = "select" /\ worker'[i] # worker[i])
               => worker'[i].pc = "returned"
         /\ (StopSignalled /\ worker[i].pc # "reading")
               => worker'[i].pc # "reading"]_vars

\* C18, amended.  With benchCtx done or stopChan closed, whichever it is and
\* whether or not the other has fired, a worker at the top of its loop
\* returns with its next step, which it can always take, and no worker takes
\* the default branch: a worker finishes at most the iteration it is in, with
\* the one read of that iteration, which it may call after the signal.
C18_EitherSignalStops ==
    /\ [](\A i \in Workers :
            (StopSignalled /\ worker[i].pc = "select") => ENABLED WorkerSelect(i))
    /\ [][\A i \in Workers :
            /\ (StopSignalled /\ worker[i].pc = "select" /\ worker'[i] # worker[i])
                  => worker'[i].pc = "returned"
            /\ (StopSignalled /\ worker[i].pc # "call") => worker'[i].pc # "call"
            /\ (worker'[i].pc = "reading" /\ worker[i].pc # "reading")
                  => worker[i].pc = "call"]_vars

\* stopChan alone was closed, benchCtx is not done, and every worker has
\* returned, after at least one read that succeeded.
C18_Witness ==
    /\ stopChan = "closed" /\ ~ctxDone
    /\ \A i \in Workers : worker[i].pc = "returned"
    /\ wg = 0
    /\ totalOps >= 1

-----------------------------------------------------------------------------
(* The results *)

Aggregating == main.pc \in {"load", "returned", "exit"}

\* C19.  From the moment wg.Wait has returned every worker has returned, so
\* neither counter changes any more; the counters are loaded after that, and
\* TotalOps of the results is the final value of the success counter.
C19_JoinBeforeAggregation ==
    /\ [](/\ Aggregating => /\ \A i \in Workers : worker[i].pc = "returned"
                            /\ wg = 0
          /\ RunEnded => /\ main.finalOps = totalOps
                         /\ main.finalLatency = totalLatency
          /\ main.results.set => main.results.TotalOps = totalOps)
    /\ [][Aggregating => UNCHANGED <<totalOps, totalLatency>>]_vars

\* Results were computed from a success counter of three or more, after
\* every worker had returned.
C19_Witness ==
    /\ main.pc = "exit" /\ main.results.set
    /\ main.results.TotalOps = totalOps /\ totalOps >= 3
    /\ \A i \in Workers : worker[i].pc = "returned"

\* C20.  executeBenchmark returns the error "no operations completed" and no
\* results exactly when the success counter is zero after the join, and
\* results and no error when it is positive; runPointReadBenchmark prints
\* the summary in the second case and reports the failure, without a summary,
\* in the first.
C20_ZeroSuccessGuard ==
    /\ RunEnded =>
          /\ totalOps = 0 <=> /\ main.err.type = "errorString"
                              /\ main.err.text = "no operations completed"
          /\ totalOps = 0 <=> ~main.results.set
          /\ totalOps > 0 <=> main.err.type = "nil"
          /\ main.results.set =>
                main.results.LatencyMs = <<totalLatency, totalOps>>
    /\ main.pc = "exit" =>
          /\ main.printed = "summary" <=> totalOps > 0
          /\ main.printed = "failure" <=> totalOps = 0
    /\ main.pc # "exit" => main.printed = "none"

\* Every read of the run failed; the run ended with the failure reported and
\* no summary.
C20_Witness ==
    /\ main.pc = "exit" /\ totalOps = 0 /\ tally.reads >= 2
    /\ main.printed = "failure" /\ ~main.results.set

-----------------------------------------------------------------------------
(* Counter monotonicity *)

\* A step of a worker that is one of the two atomic additions.
WorkerAdds == \E i \in Workers : AddOps(i) \/ AddLatency(i)

\* C21: within one run both shared counters, the count of successful
\* operations and the cumulative latency, start at zero, are never negative
\* and never decrease from one state to the next, and a step that changes
\* either of them is an atomic addition of a worker: neither the progress
\* reporter nor the aggregation changes them.
C21_CounterMonotonicity ==
    /\ totalOps = 0 /\ totalLatency = 0
    /\ [](totalOps >= 0 /\ totalLatency >= 0)
    /\ [][/\ totalOps' >= totalOps
          /\ totalLatency' >= totalLatency
          /\ <<totalOps, totalLatency>>' # <<totalOps, totalLatency>>
                => WorkerAdds]_vars

\* The run is over, the progress reporter has returned, the aggregation has
\* loaded the counters, and both counters were raised more than once.
C21_Witness ==
    /\ main.pc = "exit"
    /\ progress = "done"
    /\ totalOps >= 2
    /\ totalLatency >= 2
    /\ main.finalOps = totalOps

-----------------------------------------------------------------------------
(* No cascade close *)

\* The wrappers obtained from the wrapper of kind w, directly or through its
\* child.
ChildrenOf(w) ==
    CASE w = "client"    -> {"database", "container"}
      [] w = "database"  -> {"container"}
      [] w = "container" -> {}

\* Goroutine t is in a Close call on the wrapper of kind w, or starts one in
\* this step; the step is its own when its position changes.
InCloseOf(t, w) ==
    /\ t \in Threads
    /\ \/ thr[t].pc \in {"free", "clear"} /\ thr[t].w = w
       \/ thr[t].pc = "idle" /\ thr'[t].pc = "free" /\ thr'[t].w = w

\* C23: a step of a Close call on a parent wrapper (the CosmosClient or the
\* DatabaseClient) changes nothing of the wrappers obtained from it: their
\* handle fields, whether they are closed, their finalizers, and the number
\* of destructor calls on their handles stay as they were; and in every step
\* a destructor call on a wrapper's handle is made by a goroutine that is in
\* that wrapper's own finalize.
C23_NoCascadeClose ==
    [][/\ \A t \in Threads : \A w \in Kinds :
             InCloseOf(t, w) /\ thr'[t] # thr[t] =>
                \A k \in ChildrenOf(w) :
                    /\ handle'[k] = handle[k]
                    /\ frees'[k] = frees[k]
                    /\ closeCalled'[k] = closeCalled[k]
                    /\ closeDone'[k] = closeDone[k]
                    /\ finalizer'[k] = finalizer[k]
                    /\ exists'[k] = exists[k]
       /\ \A k \in Kinds :
             (frees'[k] # frees[k] \/ (handle'[k] = NULL /\ handle[k] # NULL)) =>
                \E t \in AllThreads :
                    thr[t].w = k /\ thr[t].pc \in {"free", "clear"}]_vars

\* Close has returned on the client and on the database client, each after
\* one destructor call, and the container client got from them is open, with
\* its handle and no destructor call.
C23_Witness ==
    /\ closeDone["client"] /\ handle["client"] = NULL /\ frees["client"] = 1
    /\ closeDone["database"] /\ handle["database"] = NULL /\ frees["database"] = 1
    /\ exists["container"] /\ handle["container"] = "container"
    /\ frees["container"] = 0 /\ ~closeCalled["container"]
    /\ ~hookRan["container"]

-----------------------------------------------------------------------------
(* Setup failures *)

\* C22: when the acquisition of the client, the database client or the
\* container client has failed (its foreign constructor call returned a
\* failure), runPointReadBenchmark has returned an error for it at once: it is
\* past its body with the wrapped error, no worker and no progress reporter was
\* started and no read was issued.
C22_SetupFailureAborts ==
    main.failed # "none" =>
        /\ main.pc = "exit"
        /\ ~ErrNil(main.err)
        /\ main.err.text = SetupText(main.failed)
        /\ \A i \in Workers : ~Started(i)
        /\ progress = "none"
        /\ tally.reads = 0

-----------------------------------------------------------------------------
(* The harness closes what it acquired *)

\* Every worker that was started has returned and the WaitGroup is at zero.
AllJoined == wg = 0 /\ \A i \in Workers : worker[i].pc \in {"none", "returned"}

\* The step calls the deferred Close of the wrapper of kind w.
DeferredCloseOf(w) ==
    /\ main.defers # <<>>
    /\ Head(main.defers) = w
    /\ main'.defers = Tail(main.defers)

\* C24: in a run of runPointReadBenchmark the use-after-release hazard is
\* never met: the foreign library is never handed a released handle, no
\* destructor runs twice, Close is called only once runPointReadBenchmark has
\* left its body, once per wrapper, on the container before the database and
\* on the database before the client, and on the container only when
\* executeBenchmark has returned with every worker joined, so that no read is
\* in flight or started once the container's handle is released; and when
\* runPointReadBenchmark has returned, every handle that was acquired has been
\* released exactly once.
C24_HarnessClosesInOrder ==
    /\ [](/\ ~crashed
          /\ \A w \in Kinds : frees[w] <= 1
          /\ \A w \in Kinds : closeCalled[w] => main.pc = "exit"
          /\ closeCalled["database"] /\ exists["container"] => closeDone["container"]
          /\ closeCalled["client"] /\ exists["database"] => closeDone["database"]
          /\ closeCalled["container"] \/ frees["container"] > 0 => AllJoined
          /\ RunReturned =>
                \A w \in Kinds :
                    exists[w] => closeDone[w] /\ frees[w] = 1 /\ handle[w] = NULL)
    /\ [][/\ \A w \in Kinds : DeferredCloseOf(w) => ~closeCalled[w] /\ AllJoined
          /\ \A w \in Kinds : closeCalled[w] => closeCalled'[w]
          /\ \A i \in Workers :
                worker'[i].pc \in {"call", "reading"} => frees["container"] = 0]_vars

\* runPointReadBenchmark has returned after a run in which reads succeeded:
\* the three handles were acquired and each was released once.
C24_Witness ==
    /\ RunReturned
    /\ main.printed = "summary"
    /\ totalOps > 0
    /\ \A w \in Kinds : exists[w] /\ closeDone[w] /\ frees[w] = 1

-----------------------------------------------------------------------------
(* Harness termination *)

\* Every goroutine of executeBenchmark has returned and executeBenchmark has
\* returned to runPointReadBenchmark.
Terminated ==
    /\ \A i \in Workers : worker[i].pc = "returned"
    /\ wg = 0
    /\ progress = "done"
    /\ main.pc \in {"returned", "exit"}

\* C25: with every foreign read returning and the goroutines fairly
\* scheduled, once benchCtx is done, by its deadline or by the cancellation
\* of the parent context, every worker eventually returns, the progress
\* goroutine returns, wg.Wait() unblocks and executeBenchmark returns: no
\* goroutine waits for ever on the stop channel, the context or another
\* goroutine.
C25_HarnessTerminates == ctxDone ~> Terminated

\* The parent context was cancelled before the deadline, after reads were
\* issued, and everything has returned.
C25_Witness ==
    /\ Terminated
    /\ ctxDone
    /\ now < Deadline
    /\ tally.reads > 0

-----------------------------------------------------------------------------
(* The data loader's worker pool *)

\* The indices insertSampleDocuments is to insert.
Jobs == 0..(itemCount - 1)

\* Every index was received from jobs once and every worker has returned.
PoolDrained ==
    /\ \A j \in Jobs : loader.taken[j] = 1
    /\ \A k \in LoaderWorkers : loader.w[k].pc = "done"
    /\ loader.wg = 0
    /\ loader.jobs = <<>>

\* The errors that were joined.
JoinedErrors == {loader.ret.joined[x] : x \in DOMAIN loader.ret.joined}

\* C26: in insertSampleDocuments, for any itemCount, no index is received
\* from jobs more than once and none outside [0, itemCount); a send on jobs
\* or on results never finds the channel full; a worker returns only when
\* jobs is closed and drained; when wg.Wait() has returned every index was
\* received exactly once, every worker has returned and exactly itemCount
\* results are in the results channel, whether inserts failed or not; the
\* function returns nil exactly when no insert failed, and otherwise the join
\* of one error for every failed insert; and the function does return.
C26_WorkerPool ==
    /\ [](/\ \A j \in 0..(MaxItems - 1) :
                loader.taken[j] <= (IF j \in Jobs THEN 1 ELSE 0)
          /\ loader.pc = "send" /\ loader.i < itemCount => ENABLED SendJob
          /\ \A k \in LoaderWorkers :
                loader.w[k].pc = "result" => ENABLED SendResult(k)
          /\ \A k \in LoaderWorkers :
                loader.w[k].pc = "done" => loader.jobsClosed /\ loader.jobs = <<>>
          /\ loader.pc = "collect" =>
                PoolDrained /\ Len(loader.results) = itemCount
          /\ loader.pc = "returned" =>
                /\ PoolDrained
                /\ loader.ret.set
                /\ loader.ret.nil <=> loader.failed = {}
                /\ Len(loader.ret.joined) = Cardinality(loader.failed)
                /\ JoinedErrors = {InsertError(j) : j \in loader.failed})
    /\ <>(loader.pc = "returned")

\* insertSampleDocuments has returned an error for the largest itemCount: an
\* insert failed, others went on and succeeded, and every index was taken.
C26_Witness ==
    /\ loader.pc = "returned"
    /\ itemCount = MaxItems
    /\ loader.failed # {}
    /\ Cardinality(loader.failed) < itemCount
    /\ ~loader.ret.nil
    /\ PoolDrained

=============================================================================
